---- MODULE Spec2Model ----
(***************************************************************************)
(* A model of media_fixer.py: the file-backed queues of QueueManager, the  *)
(* classification, scan and per-item processing of MediaFixer, and the     *)
(* control flow of main(), with the process killed and restarted.          *)
(*                                                                         *)
(* Text is modelled as a sequence of tokens: a token is one character of a *)
(* file name (" " is a blank), a suffix such as ".mp4", the delimiter      *)
(* "||||", or a rendered Python value ("True", "False", "None").  A queue  *)
(* file is its sequence of lines, each line without its trailing newline.  *)
(***************************************************************************)
EXTENDS Integers, Sequences, FiniteSets, TLC

VARIABLES
    qfile,      \* queue name -> [ex, lines]: the backing file on disk
    denied,     \* queue names whose backing file open() refuses (PermissionError)
    call,       \* the last QueueManager call made by the queue driver
    hist,       \* per queue: what the driver appended and what its pops returned
    nops,       \* calls made by the queue driver
    fs,         \* path -> content: the regular files of the scanned tree
    pc,         \* where main() stands ("idle": no process is running)
    args,       \* the flags of the current run
    loc,        \* the local variables of main() and of the calls it is in
    run,        \* what the current run has done so far (history)
    orphan,     \* the entry a killed run held popped and unresolved
    runs,       \* runs started
    kills       \* runs killed

qvars == <<qfile, denied, call, hist, nops>>

mvars == <<fs, pc, args, loc, run, orphan, runs, kills>>

vars == <<qfile, denied, call, hist, nops, fs, pc, args, loc, run, orphan, runs, kills>>

(***************************************************************************)
(* Bounds                                                                  *)
(***************************************************************************)
MaxOps == 4

MaxRuns == 2

MaxKills == 1

(***************************************************************************)
(* Text helpers (str.strip)                                                *)
(***************************************************************************)
RECURSIVE LStrip(_)
LStrip(s) == IF s # <<>> /\ Head(s) = " " THEN LStrip(Tail(s)) ELSE s

RECURSIVE RStrip(_)
RStrip(s) ==
    IF s # <<>> /\ s[Len(s)] = " " THEN RStrip(SubSeq(s, 1, Len(s) - 1)) ELSE s

Strip(s) == RStrip(LStrip(s))

(***************************************************************************)
(* QueueManager                                                            *)
(***************************************************************************)
\* self.queues, in the order the dict is built
QueueOrder == <<"skipped", "failed", "completed", "in_progress", "leftovers">>

QueueNames == {QueueOrder[i] : i \in 1..Len(QueueOrder)}

NoFile == [ex |-> FALSE, lines |-> <<>>]

EmptyFile == [ex |-> TRUE, lines |-> <<>>]

\* queue_file.write_text('') for one queue file
write_text_empty_keeps_lines(qf, q) == [qf EXCEPT ![q] = [ex |-> TRUE, lines |-> @.lines]]

write_text_empty(qf, q) == [qf EXCEPT ![q] = EmptyFile]

\* initialize_queues: the files are truncated one after the other; the first
\* one that cannot be opened raises and leaves the later ones untouched
RECURSIVE initialize_from(_, _, _)
initialize_from(qf, i, den) ==
    IF i > Len(QueueOrder) THEN [qf |-> qf, exc |-> "none"]
    ELSE IF QueueOrder[i] \in den THEN [qf |-> qf, exc |-> "PermissionError"]
    ELSE initialize_from(write_text_empty(qf, QueueOrder[i]), i + 1, den)

initialize_queues(qf, den) == initialize_from(qf, 1, den)

\* add_to_queue: open(..., 'a') creates a missing file; one line is written.
\* Nothing catches an exception of open().
add_to_queue(qf, den, q, entry) ==
    IF q \notin QueueNames THEN [qf |-> qf, exc |-> "KeyError"]
    ELSE IF q \in den THEN [qf |-> qf, exc |-> "PermissionError"]
    ELSE [qf |-> [qf EXCEPT ![q] = [ex |-> TRUE, lines |-> Append(qf[q].lines, entry)]],
          exc |-> "none"]

\* get_queue_length: 0 for an unknown name and for a missing file
get_queue_length(qf, den, name) ==
    IF name \notin QueueNames THEN [n |-> 0, exc |-> "none"]
    ELSE IF name \in den THEN [n |-> 0, exc |-> "PermissionError"]
    ELSE IF ~qf[name].ex THEN [n |-> 0, exc |-> "none"]
    ELSE [n |-> Len(qf[name].lines), exc |-> "none"]

\* pop_from_queue, first part: open and readlines.  "go" says whether the
\* rewrite follows; otherwise the call ends returning None or raising.
pop_read(qf, den, q) ==
    IF q \notin QueueNames THEN [go |-> FALSE, lines |-> <<>>, exc |-> "KeyError"]
    ELSE IF q \in den THEN [go |-> FALSE, lines |-> <<>>, exc |-> "PermissionError"]
    ELSE IF ~qf[q].ex THEN [go |-> FALSE, lines |-> <<>>, exc |-> "none"]
    ELSE IF qf[q].lines = <<>> THEN [go |-> FALSE, lines |-> <<>>, exc |-> "none"]
    ELSE [go |-> TRUE, lines |-> qf[q].lines, exc |-> "none"]

\* pop_from_queue, second part: open(..., 'w') truncates the file
pop_truncate(qf, q) == [qf EXCEPT ![q] = EmptyFile]

\* pop_from_queue, third part: f.writelines(lines[1:]), flushed at close
pop_writelines_drops_two(qf, q, lines) ==
    [qf EXCEPT ![q] = [ex |-> TRUE,
                       lines |-> IF Len(lines) > 1 THEN Tail(Tail(lines)) ELSE <<>>]]

pop_writelines(qf, q, lines) ==
    [qf EXCEPT ![q] = [ex |-> TRUE, lines |-> Tail(lines)]]

\* pop_from_queue, the value returned: lines[0].strip()
pop_result_last(lines) == Strip(lines[Len(lines)])

pop_result(lines) == Strip(lines[1])

\* pop_from_queue run to its end without interruption
pop_from_queue_rewrites_empty(qf, den, q) ==
    LET r == pop_read(qf, den, q) IN
    IF r.exc # "none" THEN [qf |-> qf, ret |-> "raise", entry |-> <<>>, exc |-> r.exc]
    ELSE IF ~r.go THEN [qf |-> pop_truncate(qf, q), ret |-> "None",
                        entry |-> <<>>, exc |-> "none"]
    ELSE [qf |-> pop_writelines(pop_truncate(qf, q), q, r.lines),
          ret |-> "entry", entry |-> pop_result(r.lines), exc |-> "none"]

pop_from_queue(qf, den, q) ==
    LET r == pop_read(qf, den, q) IN
    IF r.exc # "none" THEN [qf |-> qf, ret |-> "raise", entry |-> <<>>, exc |-> r.exc]
    ELSE IF ~r.go THEN [qf |-> qf, ret |-> "None", entry |-> <<>>, exc |-> "none"]
    ELSE [qf |-> pop_writelines(pop_truncate(qf, q), q, r.lines),
          ret |-> "entry", entry |-> pop_result(r.lines), exc |-> "none"]

(***************************************************************************)
(* Paths (pathlib) and the configuration                                   *)
(***************************************************************************)
SuffixTokens == {".mp4", ".avi", ".mkv", ".txt", ".mediafixer_working",
                 ".tmuxed", ".encoded"}

\* ConversionConfig defaults
container == "Matroska"

container_extension == ".mkv"

video_codec == "AV1"

video_height == 720

\* what _encode_video asks ffmpeg for when needs_encode: "-c:v libx264"
encoder_output_codec == "H264"

has_suffix(p) == Len(p) > 1 /\ p[Len(p)] \in SuffixTokens

\* Path.stem of the file name
stem(p) == IF has_suffix(p) THEN SubSeq(p, 1, Len(p) - 1) ELSE p

\* Path.with_suffix
with_suffix(p, ext) == stem(p) \o <<ext>>

\* process_video: path.with_name(f"{path.stem}.mediafixer_working")
working_file_of(p) == stem(p) \o <<".mediafixer_working">>

\* _transmux_video: filepath.with_name(f"{filepath.stem}.tmuxed.{ext}")
tmuxed_output_of(w) == stem(w) \o <<".tmuxed", container_extension>>

\* _encode_video: filepath.with_name(f"{filepath.stem}.encoded.{ext}")
encoded_output_of(w) == stem(w) \o <<".encoded", container_extension>>

\* process_video: path.with_suffix(f".{container_extension}")
final_path_of(p) == with_suffix(p, container_extension)

\* scan_videos: str_path.endswith("mediafixer_working")
is_working_name(p) == p # <<>> /\ p[Len(p)] = ".mediafixer_working"

(***************************************************************************)
(* File contents, as the probes see them                                   *)
(***************************************************************************)
\* mime: what `file --mime-type` answers; tracks, format, vformat, height:
\* what MediaInfo.parse answers (height 0: the track has no height), or
\* probe = "raise" where it raises; whole: FALSE for a file whose writer did
\* not finish
Video(origin, fmt, vfmt, h) ==
    [origin |-> origin, mime |-> "video", probe |-> "ok",
     tracks |-> {"General", "Video"},
     format |-> fmt, vformat |-> vfmt, height |-> h, whole |-> TRUE]

is_video_file(c) == c.mime = "video"

\* a Python value is carried as the token str() renders it to
PyBool(b) == IF b THEN "True" ELSE "False"

\* analyze_video: (result, needs_container, needs_encode, needs_resize)
analyze_video_resize_at_equal(c) ==
    IF c.probe = "raise" \/ ~({"General", "Video"} \subseteq c.tracks)
    THEN [result |-> 0, nc |-> "False", ne |-> "False", nr |-> "False"]
    ELSE LET nc == PyBool(c.format # container)
             ne == PyBool(c.vformat # video_codec)
             nr == IF c.height = 0 THEN "None" ELSE PyBool(c.height >= video_height)
         IN  IF nc = "True" \/ ne = "True" \/ nr = "True"
             THEN [result |-> 1, nc |-> nc, ne |-> ne, nr |-> nr]
             ELSE [result |-> 2, nc |-> "False", ne |-> "False", nr |-> "False"]

analyze_video(c) ==
    IF c.probe = "raise" \/ ~({"General", "Video"} \subseteq c.tracks)
    THEN [result |-> 0, nc |-> "False", ne |-> "False", nr |-> "False"]
    ELSE LET nc == PyBool(c.format # container)
             ne == PyBool(c.vformat # video_codec)
             nr == IF c.height = 0 THEN "None" ELSE PyBool(c.height > video_height)
         IN  IF nc = "True" \/ ne = "True" \/ nr = "True"
             THEN [result |-> 1, nc |-> nc, ne |-> ne, nr |-> nr]
             ELSE [result |-> 2, nc |-> "False", ne |-> "False", nr |-> "False"]

\* scan_videos: f"{str_path}|||| {needs_container} {needs_encode} {needs_resize}"
format_entry(p, nc, ne, nr) ==
    p \o <<"||||", " ", nc, " ", ne, " ", nr>>

(***************************************************************************)
(* Parsing an entry (main, the work loop)                                  *)
(***************************************************************************)
\* str.split('||||'): the pieces between the delimiters
RECURSIVE split_delim(_, _)
split_delim(s, cur) ==
    IF s = <<>> THEN <<cur>>
    ELSE IF Head(s) = "||||" THEN <<cur>> \o split_delim(Tail(s), <<>>)
    ELSE split_delim(Tail(s), Append(cur, Head(s)))

\* str.split(): the words between runs of blanks
RECURSIVE split_blank(_, _)
split_blank(s, cur) ==
    IF s = <<>> THEN (IF cur = <<>> THEN <<>> ELSE <<cur>>)
    ELSE IF Head(s) = " "
         THEN (IF cur = <<>> THEN <<>> ELSE <<cur>>) \o split_blank(Tail(s), <<>>)
         ELSE split_blank(Tail(s), Append(cur, Head(s)))

\* lines 402-405: ok is FALSE where the unpacking raises ValueError.  The
\* pieces are bound through one-element sets, so that each is evaluated once
\* wherever the parse is evaluated.
parse_words(parts, words) ==
    IF Len(words) # 3
    THEN [ok |-> FALSE, path |-> <<>>, nc |-> FALSE, ne |-> FALSE, nr |-> FALSE]
    ELSE [ok |-> TRUE, path |-> Strip(parts[1]),
          nc |-> (Strip(words[1]) = <<"True">>),
          ne |-> (Strip(words[2]) = <<"True">>),
          nr |-> (Strip(words[3]) = <<"True">>)]

parse_parts(parts) ==
    IF Len(parts) # 2
    THEN [ok |-> FALSE, path |-> <<>>, nc |-> FALSE, ne |-> FALSE, nr |-> FALSE]
    ELSE CHOOSE r \in {parse_words(parts, words) :
                           words \in {split_blank(Strip(parts[2]), <<>>)}} : TRUE

parse_entry(entry) ==
    CHOOSE r \in {parse_parts(parts) : parts \in {split_delim(entry, <<>>)}} : TRUE

(***************************************************************************)
(* The file system                                                         *)
(***************************************************************************)
exists(f, p) == p \in DOMAIN f

put(f, p, c) == [q \in DOMAIN f \cup {p} |-> IF q = p THEN c ELSE f[q]]

remove(f, p) == [q \in DOMAIN f \ {p} |-> f[q]]

\* the file at a path: <<content>>, or <<>> where there is none
file_at(f, p) == IF exists(f, p) THEN <<f[p]>> ELSE <<>>

\* Path.rename / Path.replace on POSIX: the target is replaced
move(f, from, to) == put(remove(f, from), to, f[from])

\* list(start_path.rglob("*")): some order of the files, fixed for a tree
RECURSIVE listing(_)
listing(S) ==
    IF S = {} THEN <<>>
    ELSE LET p == CHOOSE x \in S : TRUE IN <<p>> \o listing(S \ {p})

\* what ffmpeg writes: the remux changes the container only
remuxed(c) == [c EXCEPT !.format = container]

\* the encode changes the codec when asked to, the height when asked to
encoded(c, ne, nr) ==
    [c EXCEPT !.vformat = IF ne THEN encoder_output_codec ELSE @,
              !.height = IF nr THEN video_height ELSE @]

partial(c) == [c EXCEPT !.whole = FALSE]

\* main(): the flags, the locals and the history of a run, before any run
NoArgs == [force |-> FALSE, retry_failed |-> FALSE, clean_only |-> FALSE, test |-> FALSE]

IdleLoc == [i |-> 0, todo |-> <<>>, failed_entries |-> <<>>, popq |-> "none",
            lines |-> <<>>, entry |-> <<>>, path |-> <<>>,
            nc |-> FALSE, ne |-> FALSE, nr |-> FALSE, rc |-> 0, success |-> FALSE,
            steps |-> <<>>]

\* snap: the queue files when the run started; pending0: the pending lines when
\* the work loop began; popped: the entries the work loop popped; recorded: the
\* outcomes it appended; line0, orig: the line of the item in hand as it stood
\* in the queue file and its file's content when process_video was called;
\* visit: the file the scan visited last, <<[path, content, before, after]>>
\* with the queue files before and after the visit
NoRun == [snap |-> [q \in QueueNames |-> NoFile], did_init |-> FALSE,
          did_scan |-> FALSE, worked |-> FALSE, pending0 |-> <<>>,
          popped |-> <<>>, recorded |-> <<>>, line0 |-> <<>>, orig |-> <<>>,
          visit |-> <<>>]

(***************************************************************************)
(* The queue driver: a caller of QueueManager on a fresh directory, as the *)
(* tests of QueueManager are.                                              *)
(***************************************************************************)
\* the entries the driver appends: opaque one-line texts, blanks included
DriverEntries == {<<"a">>, <<"b">>, <<" ", "a">>, <<"b", " ">>}

\* the queues the driver calls, and a name that is no queue
DriverQueues == {"failed", "completed"}

DriverNames == DriverQueues \cup {"nonexistent"}

NoCall == [op |-> "none", q |-> "none", arg |-> <<>>, ret |-> "None",
           entry |-> <<>>, n |-> 0, exc |-> "none", before |-> <<>>]

NoHist == [q \in DriverQueues |-> [appended |-> <<>>, popped |-> <<>>, mixed |-> FALSE]]

QInit ==
    /\ qfile = [q \in QueueNames |-> NoFile]
    /\ denied \in SUBSET {"failed"}
    /\ call = NoCall
    /\ hist = NoHist
    /\ nops = 0
    /\ fs = <<>>
    /\ pc = "idle"
    /\ args = NoArgs
    /\ loc = IdleLoc
    /\ run = NoRun
    /\ orphan = <<>>
    /\ runs = 0
    /\ kills = 0

\* the queues initialize_queues truncates before it raises, if it does
Truncated(den) ==
    {QueueOrder[i] : i \in {j \in 1..Len(QueueOrder) :
                                \A k \in 1..j : QueueOrder[k] \notin den}}

\* hist after initialize_queues: a truncated queue starts over
hist_after_init ==
    [q \in DriverQueues |-> IF q \in Truncated(denied) THEN NoHist[q] ELSE hist[q]]

QInitialize ==
    /\ nops < MaxOps
    /\ LET r == initialize_queues(qfile, denied) IN
        /\ qfile' = r.qf
        /\ call' = [NoCall EXCEPT !.op = "initialize_queues",
                                  !.ret = IF r.exc = "none" THEN "None" ELSE "raise",
                                  !.exc = r.exc, !.before = qfile]
        /\ hist' = hist_after_init
    /\ nops' = nops + 1
    /\ UNCHANGED <<denied, mvars>>

QAdd ==
    /\ nops < MaxOps
    /\ \E q \in DriverQueues, e \in DriverEntries :
        LET r == add_to_queue(qfile, denied, q, e) IN
        /\ qfile' = r.qf
        /\ call' = [NoCall EXCEPT !.op = "add_to_queue", !.q = q, !.arg = e,
                                  !.ret = IF r.exc = "none" THEN "None" ELSE "raise",
                                  !.exc = r.exc, !.before = qfile]
        /\ hist' = IF r.exc # "none" THEN hist
                   ELSE [hist EXCEPT ![q].appended = Append(@, e),
                                     ![q].mixed = @ \/ hist[q].popped # <<>>]
    /\ nops' = nops + 1
    /\ UNCHANGED <<denied, mvars>>

QLength ==
    /\ nops < MaxOps
    /\ \E name \in DriverNames :
        LET r == get_queue_length(qfile, denied, name) IN
        /\ call' = [NoCall EXCEPT !.op = "get_queue_length", !.q = name,
                                  !.ret = IF r.exc = "none" THEN "int" ELSE "raise",
                                  !.n = r.n, !.exc = r.exc, !.before = qfile]
    /\ nops' = nops + 1
    /\ UNCHANGED <<qfile, denied, hist, mvars>>

QPop ==
    /\ nops < MaxOps
    /\ \E q \in DriverNames :
        LET r == pop_from_queue(qfile, denied, q) IN
        /\ qfile' = r.qf
        /\ call' = [NoCall EXCEPT !.op = "pop_from_queue", !.q = q, !.ret = r.ret,
                                  !.entry = r.entry, !.exc = r.exc, !.before = qfile]
        /\ hist' = IF q \in DriverQueues /\ r.ret # "raise"
                   THEN [hist EXCEPT ![q].popped =
                            Append(@, IF r.ret = "entry" THEN <<r.entry>> ELSE <<>>)]
                   ELSE hist
    /\ nops' = nops + 1
    /\ UNCHANGED <<denied, mvars>>

QNext == QInitialize \/ QAdd \/ QLength \/ QPop

QueueSpec == QInit /\ [][QNext]_vars

(***************************************************************************)
(* The scanned tree                                                        *)
(***************************************************************************)
\* a.mp4: wrong container, wrong codec, too high
File_a == <<"a", ".mp4">>

\* "b c.mkv": the codec alone is wrong; its final path is its own path
File_b == <<"b", " ", "c", ".mkv">>

\* g.avi: a video by its mime type, with no video track
File_g == <<"g", ".avi">>

\* s.mkv: already as the policy wants it
File_s == <<"s", ".mkv">>

Tree1 ==
    (File_a :> Video("a", "MP4", "H264", 1080)) @@
    (File_b :> Video("b", "Matroska", "H264", 720)) @@
    (File_g :> [Video("g", "AVI", "none", 0) EXCEPT !.tracks = {"General"}]) @@
    (File_s :> Video("s", "Matroska", "AV1", 720))

\* a.mp4 with no height reported, beside an a.mkv of the same stem
File_k == <<"a", ".mkv">>

\* n.txt: no video by its mime type
File_n == <<"n", ".txt">>

Tree2 ==
    (File_a :> Video("a", "MP4", "AV1", 0)) @@
    (File_k :> Video("k", "Matroska", "H264", 720)) @@
    (File_n :> [Video("n", "none", "none", 0) EXCEPT !.mime = "text", !.tracks = {}])

Trees == {Tree1, Tree2}

(***************************************************************************)
(* main(): the state of one run                                            *)
(***************************************************************************)
Stopped == {"idle", "done", "exit1"}

\* between the pop of the work loop and the recording of the outcome
Holding ==
    /\ loc.popq = "in_progress"
    /\ loc.entry # <<>>
    /\ pc \in {"popped", "pv_copy", "tmux_run", "tmux_done", "enc_run", "enc_done",
               "rename", "unlink", "record"}

Init ==
    /\ qfile = [q \in QueueNames |-> NoFile]
    /\ denied = {}
    /\ call = NoCall
    /\ hist = NoHist
    /\ nops = 0
    /\ fs \in Trees
    /\ pc = "idle"
    /\ args = NoArgs
    /\ loc = IdleLoc
    /\ run = NoRun
    /\ orphan = <<>>
    /\ runs = 0
    /\ kills = 0

\* line 367: args.force or not queue_manager.get_queue_length('in_progress')
starts_fresh_when_pending(force, qf) ==
    force \/ get_queue_length(qf, denied, "in_progress").n # 0

starts_fresh(force, qf) == force \/ get_queue_length(qf, denied, "in_progress").n = 0

\* lines 353-367
Start ==
    /\ pc \in Stopped
    /\ runs < MaxRuns
    /\ \E force \in BOOLEAN, retry \in BOOLEAN, clean \in BOOLEAN, test \in BOOLEAN :
        /\ args' = [force |-> force, retry_failed |-> retry,
                    clean_only |-> clean, test |-> test]
        /\ pc' = IF starts_fresh(force, qfile) THEN "init" ELSE "clean_check"
    /\ loc' = [IdleLoc EXCEPT !.i = 1]
    /\ run' = [NoRun EXCEPT !.snap = qfile]
    /\ orphan' = IF pc = "idle" THEN orphan ELSE <<>>
    /\ runs' = runs + 1
    /\ UNCHANGED <<qvars, fs, kills>>

\* lines 368-370: initialize_queues, one file per step
after_initialize == IF args.retry_failed THEN "pop_read" ELSE "scan_begin"

Initialize ==
    /\ pc = "init"
    /\ qfile' = write_text_empty(qfile, QueueOrder[loc.i])
    /\ run' = [run EXCEPT !.did_init = TRUE]
    /\ IF loc.i < Len(QueueOrder)
       THEN /\ loc' = [loc EXCEPT !.i = @ + 1]
            /\ pc' = pc
       ELSE /\ loc' = [loc EXCEPT !.popq = "failed"]
            /\ pc' = after_initialize
    /\ UNCHANGED <<denied, call, hist, nops, fs, args, orphan, runs, kills>>

\* pop_from_queue, lines 82-85
PopRead ==
    /\ pc = "pop_read"
    /\ LET r == pop_read(qfile, denied, loc.popq) IN
        IF r.go
        THEN /\ loc' = [loc EXCEPT !.lines = r.lines]
             /\ pc' = "pop_trunc"
        ELSE /\ loc' = [loc EXCEPT !.lines = <<>>, !.entry = <<>>]
             /\ pc' = "popped"
    /\ UNCHANGED <<qvars, fs, args, run, orphan, runs, kills>>

\* pop_from_queue, line 86
PopTruncate ==
    /\ pc = "pop_trunc"
    /\ qfile' = pop_truncate(qfile, loc.popq)
    /\ pc' = "pop_write"
    /\ UNCHANGED <<denied, call, hist, nops, fs, args, loc, run, orphan, runs, kills>>

\* pop_from_queue, lines 87-88
PopWrite ==
    /\ pc = "pop_write"
    /\ qfile' = pop_writelines(qfile, loc.popq, loc.lines)
    /\ loc' = [loc EXCEPT !.entry = pop_result(loc.lines)]
    /\ pc' = "popped"
    /\ UNCHANGED <<denied, call, hist, nops, fs, args, run, orphan, runs, kills>>

\* lines 372-376: the retry loop takes what the pop of 'failed' returned
RetryCollect ==
    /\ pc = "popped"
    /\ loc.popq = "failed"
    /\ IF loc.entry = <<>>
       THEN /\ pc' = "retry_add"
            /\ loc' = loc
       ELSE /\ pc' = "pop_read"
            /\ loc' = [loc EXCEPT !.failed_entries = Append(@, loc.entry)]
    /\ UNCHANGED <<qvars, fs, args, run, orphan, runs, kills>>

\* lines 378-379
RetryAdd ==
    /\ pc = "retry_add"
    /\ IF loc.failed_entries = <<>>
       THEN /\ pc' = "scan_begin"
            /\ UNCHANGED <<qfile, loc>>
       ELSE /\ qfile' = add_to_queue(qfile, denied, "in_progress",
                                     Head(loc.failed_entries)).qf
            /\ loc' = [loc EXCEPT !.failed_entries = Tail(@)]
            /\ pc' = pc
    /\ UNCHANGED <<denied, call, hist, nops, fs, args, run, orphan, runs, kills>>

\* lines 381-382 and 313: the scan, unless the run only cleans
scans(a) == ~a.clean_only

ScanBegin ==
    /\ pc = "scan_begin"
    /\ IF scans(args)
       THEN /\ loc' = [loc EXCEPT !.todo = listing(DOMAIN fs)]
            /\ run' = [run EXCEPT !.did_scan = TRUE]
            /\ pc' = "scan"
       ELSE /\ pc' = "clean_check"
            /\ UNCHANGED <<loc, run>>
    /\ UNCHANGED <<qvars, fs, args, orphan, runs, kills>>

\* lines 326-335: where a video goes
scan_route_skip_to_pending(p, c) ==
    LET a == analyze_video(c) IN
    IF a.result = 0 THEN [q |-> "failed", entry |-> p]
    ELSE [q |-> "in_progress", entry |-> format_entry(p, a.nc, a.ne, a.nr)]

scan_route_invalid_skipped(p, c) ==
    LET a == analyze_video(c) IN
    IF a.result = 1
    THEN [q |-> "in_progress", entry |-> format_entry(p, a.nc, a.ne, a.nr)]
    ELSE [q |-> "skipped", entry |-> p]

scan_route(p, c) ==
    LET a == analyze_video(c) IN
    IF a.result = 0 THEN [q |-> "failed", entry |-> p]
    ELSE IF a.result = 2 THEN [q |-> "skipped", entry |-> p]
    ELSE [q |-> "in_progress", entry |-> format_entry(p, a.nc, a.ne, a.nr)]

\* lines 313-335, one file of the listing
ScanFile ==
    /\ pc = "scan"
    /\ IF loc.todo = <<>>
       THEN /\ pc' = "clean_check"
            /\ UNCHANGED <<qfile, fs, loc, run>>
       ELSE LET p == Head(loc.todo) IN
            /\ loc' = [loc EXCEPT !.todo = Tail(@)]
            /\ pc' = pc
            /\ IF ~exists(fs, p) THEN UNCHANGED <<qfile, fs>>
               ELSE IF is_working_name(p)
               THEN /\ fs' = IF args.test THEN fs ELSE remove(fs, p)
                    /\ UNCHANGED qfile
               ELSE IF is_video_file(fs[p])
               THEN /\ qfile' = add_to_queue(qfile, denied, scan_route(p, fs[p]).q,
                                             scan_route(p, fs[p]).entry).qf
                    /\ UNCHANGED fs
               ELSE UNCHANGED <<qfile, fs>>
            /\ run' = [run EXCEPT !.visit = IF exists(fs, p)
                                            THEN <<[path |-> p, content |-> fs[p],
                                                    before |-> qfile, after |-> qfile']>>
                                            ELSE <<>>]
    /\ UNCHANGED <<denied, call, hist, nops, args, orphan, runs, kills>>

\* lines 384-386
CleanCheck ==
    /\ pc = "clean_check"
    /\ pc' = IF args.clean_only THEN "done" ELSE "report"
    /\ UNCHANGED <<qvars, fs, args, loc, run, orphan, runs, kills>>

\* lines 388-396: the counts are logged and the work loop begins
Report ==
    /\ pc = "report"
    /\ loc' = [loc EXCEPT !.popq = "in_progress"]
    /\ run' = [run EXCEPT !.worked = TRUE, !.pending0 = qfile["in_progress"].lines]
    /\ pc' = "pop_read"
    /\ UNCHANGED <<qvars, fs, args, orphan, runs, kills>>

\* where process_video goes after the copy, the remux, the encode
after_copy_encode_first(l) ==
    IF l.ne \/ l.nr THEN "enc_run" ELSE IF l.nc THEN "tmux_run" ELSE "rename"

after_copy(l) == IF l.nc THEN "tmux_run" ELSE IF l.ne \/ l.nr THEN "enc_run" ELSE "rename"

after_tmux(l) == IF l.ne \/ l.nr THEN "enc_run" ELSE "rename"

\* line 410: an entry with no flag set is dropped without an outcome
needs_work_all(e) == e.nc /\ e.ne /\ e.nr

needs_work(e) == e.nc \/ e.ne \/ e.nr

\* lines 399-411: the work loop takes what the pop of 'in_progress' returned
WorkParse ==
    /\ pc = "popped"
    /\ loc.popq = "in_progress"
    /\ IF loc.entry = <<>>
       THEN /\ pc' = "done"
            /\ UNCHANGED <<loc, run>>
       ELSE \E e \in {parse_entry(loc.entry)} :
            IF ~e.ok
            THEN /\ pc' = "exit1"
                 /\ UNCHANGED <<loc, run>>
            ELSE /\ loc' = [loc EXCEPT !.path = e.path, !.nc = e.nc, !.ne = e.ne,
                                       !.nr = e.nr, !.success = FALSE,
                                       !.steps = <<>>]
                 /\ run' = [run EXCEPT !.popped = Append(@, loc.entry),
                                       !.line0 = loc.lines[1],
                                       !.orig = file_at(fs, e.path)]
                 /\ pc' = IF needs_work(e) THEN "pv_copy" ELSE "pop_read"
    /\ UNCHANGED <<qvars, fs, args, orphan, runs, kills>>

(***************************************************************************)
(* process_video, _transmux_video, _encode_video                           *)
(***************************************************************************)
\* lines 218-220: an exception inside process_video becomes "return False"
pv_except == "record"

\* shutil.copy2(filepath, working_file): it raises when the source is missing
\* or is the working file itself, and it may fail part-way
copy2(f, src, dst) ==
    IF ~exists(f, src) \/ src = dst THEN {[ok |-> FALSE, fs |-> f]}
    ELSE {[ok |-> TRUE, fs |-> put(f, dst, f[src])],
          [ok |-> FALSE, fs |-> put(f, dst, partial(f[src]))]}

\* subprocess.run of ffmpeg reading w and writing out (no -y: an existing
\* output is not overwritten): the exit code and the files afterwards
ffmpeg(f, w, out, result) ==
    IF exists(f, out) \/ ~exists(f, w) THEN {[rc |-> 1, fs |-> f]}
    ELSE {[rc |-> 0, fs |-> put(f, out, result)],
          [rc |-> 1, fs |-> put(f, out, partial(result))],
          [rc |-> 1, fs |-> f]}

\* lines 238-245 and 286-293: what follows the exit code
ffmpeg_done_keeps_output(f, rc, w, out) ==
    IF rc = 0 THEN [ok |-> exists(f, out), fs |-> f]
    ELSE [ok |-> FALSE, fs |-> IF exists(f, out) THEN remove(f, out) ELSE f]

ffmpeg_done(f, rc, w, out) ==
    IF rc = 0 THEN [ok |-> exists(f, out), fs |-> IF exists(f, out) THEN move(f, out, w) ELSE f]
    ELSE [ok |-> FALSE, fs |-> IF exists(f, out) THEN remove(f, out) ELSE f]

\* lines 192-197
PvCopy ==
    /\ pc = "pv_copy"
    /\ IF args.test
       THEN /\ pc' = after_copy(loc)
            /\ UNCHANGED <<fs, loc>>
       ELSE \E r \in copy2(fs, loc.path, working_file_of(loc.path)) :
            /\ fs' = r.fs
            /\ pc' = IF r.ok THEN after_copy(loc) ELSE pv_except
            /\ loc' = [loc EXCEPT !.success = FALSE]
    /\ UNCHANGED <<qvars, args, run, orphan, runs, kills>>

\* lines 199-200 and 225-236
TmuxRun ==
    /\ pc = "tmux_run"
    /\ IF args.test
       THEN /\ pc' = after_tmux(loc)
            /\ loc' = [loc EXCEPT !.steps = Append(@, [step |-> "remux", ok |-> TRUE])]
            /\ UNCHANGED fs
       ELSE LET w == working_file_of(loc.path) IN
            \E r \in ffmpeg(fs, w, tmuxed_output_of(w),
                            IF exists(fs, w) THEN remuxed(fs[w]) ELSE <<>>) :
            /\ fs' = r.fs
            /\ loc' = [loc EXCEPT !.rc = r.rc]
            /\ pc' = "tmux_done"
    /\ UNCHANGED <<qvars, args, run, orphan, runs, kills>>

\* lines 238-245 and 201-202
TmuxDone ==
    /\ pc = "tmux_done"
    /\ LET w == working_file_of(loc.path)
           r == ffmpeg_done(fs, loc.rc, w, tmuxed_output_of(w)) IN
        /\ fs' = r.fs
        /\ pc' = IF r.ok THEN after_tmux(loc) ELSE "record"
        /\ loc' = [loc EXCEPT !.success = FALSE,
                              !.steps = Append(@, [step |-> "remux", ok |-> r.ok])]
    /\ UNCHANGED <<qvars, args, run, orphan, runs, kills>>

\* lines 204-205 and 255-284
EncRun ==
    /\ pc = "enc_run"
    /\ IF args.test
       THEN /\ pc' = "rename"
            /\ loc' = [loc EXCEPT !.steps = Append(@, [step |-> "encode", ok |-> TRUE])]
            /\ UNCHANGED fs
       ELSE LET w == working_file_of(loc.path) IN
            \E r \in ffmpeg(fs, w, encoded_output_of(w),
                            IF exists(fs, w) THEN encoded(fs[w], loc.ne, loc.nr)
                            ELSE <<>>) :
            /\ fs' = r.fs
            /\ loc' = [loc EXCEPT !.rc = r.rc]
            /\ pc' = "enc_done"
    /\ UNCHANGED <<qvars, args, run, orphan, runs, kills>>

\* lines 286-293 and 206-207
EncDone ==
    /\ pc = "enc_done"
    /\ LET w == working_file_of(loc.path)
           r == ffmpeg_done(fs, loc.rc, w, encoded_output_of(w)) IN
        /\ fs' = r.fs
        /\ pc' = IF r.ok THEN "rename" ELSE "record"
        /\ loc' = [loc EXCEPT !.success = FALSE,
                              !.steps = Append(@, [step |-> "encode", ok |-> r.ok])]
    /\ UNCHANGED <<qvars, args, run, orphan, runs, kills>>

\* lines 210-212 and 216
PvRename ==
    /\ pc = "rename"
    /\ LET w == working_file_of(loc.path)
           final == final_path_of(loc.path) IN
        IF args.test
        THEN /\ loc' = [loc EXCEPT !.success = TRUE]
             /\ pc' = "record"
             /\ UNCHANGED fs
        ELSE IF ~exists(fs, w)
        THEN /\ loc' = [loc EXCEPT !.success = FALSE,
                                   !.steps = Append(@, [step |-> "rename", ok |-> FALSE])]
             /\ pc' = pv_except
             /\ UNCHANGED fs
        ELSE /\ fs' = move(fs, w, final)
             /\ loc' = [loc EXCEPT !.success = (final = loc.path),
                                   !.steps = Append(@, [step |-> "rename", ok |-> TRUE])]
             /\ pc' = IF final # loc.path THEN "unlink" ELSE "record"
    /\ UNCHANGED <<qvars, args, run, orphan, runs, kills>>

\* lines 213-216
PvUnlink ==
    /\ pc = "unlink"
    /\ IF exists(fs, loc.path)
       THEN /\ fs' = remove(fs, loc.path)
            /\ loc' = [loc EXCEPT !.success = TRUE]
            /\ pc' = "record"
       ELSE /\ loc' = [loc EXCEPT !.success = FALSE]
            /\ pc' = pv_except
            /\ UNCHANGED fs
    /\ UNCHANGED <<qvars, args, run, orphan, runs, kills>>

(***************************************************************************)
(* main(): the outcome, the end of the loop, the kill                      *)
(***************************************************************************)
\* line 412
outcome_queue_swapped(success) == IF success THEN "failed" ELSE "completed"

outcome_queue(success) == IF success THEN "completed" ELSE "failed"

\* the while loop of lines 397-413 goes on whatever the outcome was
after_record_stops_on_failure(success) == IF success THEN "pop_read" ELSE "done"

after_record(success) == "pop_read"

\* lines 412-413
WorkRecord ==
    /\ pc = "record"
    /\ qfile' = add_to_queue(qfile, denied, outcome_queue(loc.success), loc.entry).qf
    /\ run' = [run EXCEPT !.recorded =
                  Append(@, [q |-> outcome_queue(loc.success), entry |-> loc.entry,
                             line0 |-> run.line0, ok |-> loc.success,
                             intact |-> file_at(fs, loc.path) = run.orig])]
    /\ pc' = after_record(loc.success)
    /\ UNCHANGED <<denied, call, hist, nops, fs, args, loc, orphan, runs, kills>>

\* the process is killed: its memory is gone, the disk stays as it is
Kill ==
    /\ pc \notin Stopped
    /\ kills < MaxKills
    /\ orphan' = IF Holding THEN loc.entry ELSE <<>>
    /\ pc' = "idle"
    /\ loc' = IdleLoc
    /\ kills' = kills + 1
    /\ UNCHANGED <<qvars, fs, args, run, runs>>

Next ==
    \/ Start
    \/ Initialize
    \/ PopRead
    \/ PopTruncate
    \/ PopWrite
    \/ RetryCollect
    \/ RetryAdd
    \/ ScanBegin
    \/ ScanFile
    \/ CleanCheck
    \/ Report
    \/ WorkParse
    \/ PvCopy
    \/ TmuxRun
    \/ TmuxDone
    \/ EncRun
    \/ EncDone
    \/ PvRename
    \/ PvUnlink
    \/ WorkRecord
    \/ Kill

Spec == Init /\ [][Next]_vars

(***************************************************************************)
(* Runs that are not killed: every step of the process, the calls of       *)
(* ffmpeg included, returns, and the process goes on to its next step      *)
(***************************************************************************)
Step ==
    \/ Initialize
    \/ PopRead
    \/ PopTruncate
    \/ PopWrite
    \/ RetryCollect
    \/ RetryAdd
    \/ ScanBegin
    \/ ScanFile
    \/ CleanCheck
    \/ Report
    \/ WorkParse
    \/ PvCopy
    \/ TmuxRun
    \/ TmuxDone
    \/ EncRun
    \/ EncDone
    \/ PvRename
    \/ PvUnlink
    \/ WorkRecord

RunNext == Start \/ Step

RunSpec == Init /\ [][RunNext]_vars /\ WF_vars(Step)

(***************************************************************************)
(* analyze_video called on one file, as its tests call it: what the probe  *)
(* answers is drawn from the sets below                                    *)
(***************************************************************************)
ProbeAnswers == {"ok", "raise"}

ProbeTracks == SUBSET {"General", "Video"}

ProbeFormats == {"Matroska", "MP4", "AVI"}

ProbeCodecs == {"AV1", "H264", "HEVC"}

\* no height, below, at and above config.video_height
ProbeHeights == {0, 480, 720, 1080}

Probes ==
    {[Video("a", f, v, h) EXCEPT !.probe = a, !.tracks = t] :
        a \in ProbeAnswers, t \in ProbeTracks, f \in ProbeFormats,
        v \in ProbeCodecs, h \in ProbeHeights}

AnalyzeInit ==
    /\ qfile = [q \in QueueNames |-> NoFile]
    /\ denied = {}
    /\ call = NoCall
    /\ hist = NoHist
    /\ nops = 0
    /\ fs \in {File_a :> c : c \in Probes}
    /\ pc = "idle"
    /\ args = NoArgs
    /\ loc = IdleLoc
    /\ run = NoRun
    /\ orphan = <<>>
    /\ runs = 0
    /\ kills = 0

\* the call: call.n is the result, call.entry the three flags as rendered
Analyze ==
    /\ nops = 0
    /\ LET r == analyze_video(fs[File_a]) IN
        call' = [NoCall EXCEPT !.op = "analyze_video", !.arg = File_a, !.ret = "tuple",
                               !.n = r.result, !.entry = <<r.nc, r.ne, r.nr>>]
    /\ nops' = 1
    /\ UNCHANGED <<qfile, denied, hist, mvars>>

AnalyzeSpec == AnalyzeInit /\ [][Analyze]_vars

(***************************************************************************)
(* Properties                                                              *)
(***************************************************************************)
Elems(s) == {s[i] : i \in DOMAIN s}

Count(s, e) == Cardinality({i \in DOMAIN s : s[i] = e})

\* how often an entry stands in the queue files, all of them together
CountOnDisk(e) ==
    Count(qfile["skipped"].lines, e) + Count(qfile["failed"].lines, e)
    + Count(qfile["completed"].lines, e) + Count(qfile["in_progress"].lines, e)
    + Count(qfile["leftovers"].lines, e)

\* the current run went on from a pending queue it found, without -f
Resumed == runs > 0 /\ ~args.force /\ run.snap["in_progress"].lines # <<>>

\* C1: an item a killed run had popped from the pending queue and not yet
\* appended to completed or failed is, when the next run is about to begin its
\* work loop, back in the pending queue, and stands in the queue files once.
C1_CrashRecovery ==
    (pc = "report" /\ orphan # <<>>) =>
        /\ orphan \in Elems(qfile["in_progress"].lines)
        /\ CountOnDisk(orphan) = 1

\* C2: when a run ends after its work loop, every entry the loop popped was
\* popped once, has one recorded outcome, and stands once in completed and
\* failed together.
C2_PoppedOnceResolvedOnce ==
    (pc = "done" /\ run.worked) =>
        \A e \in Elems(run.popped) :
            /\ Count(run.popped, e) = 1
            /\ Cardinality({i \in DOMAIN run.recorded : run.recorded[i].entry = e}) = 1
            /\ Count(qfile["completed"].lines, e) + Count(qfile["failed"].lines, e) = 1

C2_Witness ==
    /\ pc = "done"
    /\ run.worked
    /\ Len(run.popped) >= 2
    /\ \E i, j \in DOMAIN run.recorded : run.recorded[i].ok /\ ~run.recorded[j].ok

\* C3: with retry-failed, every entry the failed queue held when the run
\* started is in the pending queue when the work loop is about to begin; without
\* it, no entry of the failed queue is ever moved into the pending queue.
C3_RetryRequeuesFailed ==
    /\ (pc = "report" /\ args.retry_failed) =>
            Elems(run.snap["failed"].lines) \subseteq Elems(qfile["in_progress"].lines)
    /\ (pc \notin Stopped /\ ~args.retry_failed) =>
            \A e \in Elems(run.snap["failed"].lines) :
                e \in Elems(qfile["in_progress"].lines)
                    => e \in Elems(run.snap["in_progress"].lines)

\* C4: when process_video has failed, main() has not been left by an
\* exception, the file at the item's path is as it was when process_video was
\* called (there, with the same content), and the outcome recorded is the entry
\* as it stood in the pending queue, appended to the failed queue.
C4_FailureLeavesOriginal ==
    /\ pc # "exit1"
    /\ (pc = "record" /\ ~loc.success) => file_at(fs, loc.path) = run.orig
    /\ \A i \in DOMAIN run.recorded :
            ~run.recorded[i].ok =>
                /\ run.recorded[i].intact
                /\ run.recorded[i].q = "failed"
                /\ run.recorded[i].entry = run.recorded[i].line0
                /\ run.recorded[i].entry \in Elems(qfile["failed"].lines)

C4_Witness ==
    /\ ~args.test
    /\ \E i \in DOMAIN run.recorded :
            /\ ~run.recorded[i].ok
            /\ run.recorded[i].intact
            /\ exists(fs, parse_entry(run.recorded[i].entry).path)
            /\ parse_entry(run.recorded[i].entry).ne
            /\ run.recorded[i].entry \in Elems(qfile["failed"].lines)

\* C5: a run that ends after its work loop has emptied the pending queue and
\* recorded an outcome for every entry that was pending when the loop began, in
\* their order, whichever of them failed.
C5_FailureDoesNotAbort ==
    /\ pc # "exit1"
    /\ (pc = "done" /\ run.worked) =>
            /\ qfile["in_progress"].lines = <<>>
            /\ Len(run.recorded) = Len(run.pending0)
            /\ \A i \in DOMAIN run.recorded : run.recorded[i].line0 = run.pending0[i]

C5_Witness ==
    /\ pc = "done"
    /\ run.worked
    /\ Len(run.recorded) >= 2
    /\ ~run.recorded[1].ok
    /\ run.recorded[2].q = "completed"

\* C6: at every point of a pop the queue file holds either what it held before
\* the pop or that without its first entry.
C6_PopAtomic ==
    pc \in {"pop_trunc", "pop_write"} =>
        qfile[loc.popq].lines \in {loc.lines, Tail(loc.lines)}

\* C7: when N entries were appended to an empty queue and then N pops were
\* made, the pops returned those entries in the order appended and the queue is
\* of length 0.
C7_RoundTrip ==
    \A q \in DriverQueues :
        (~hist[q].mixed /\ Len(hist[q].popped) = Len(hist[q].appended)) =>
            /\ hist[q].popped = [i \in DOMAIN hist[q].appended |-> <<hist[q].appended[i]>>]
            /\ get_queue_length(qfile, denied, q).n = 0

\* C8: get_queue_length of an empty queue, of a queue with no file and of a
\* name that is no queue returns 0, pop_from_queue of an empty queue and of a
\* queue with no file returns None; neither raises, neither changes a queue file.
C8_EmptyOrMissingIsEmpty ==
    /\ (/\ call.op = "get_queue_length"
        /\ \/ call.q \notin QueueNames
           \/ call.q \notin denied /\ call.before[call.q].lines = <<>>)
            => call.ret = "int" /\ call.n = 0 /\ qfile = call.before
    /\ (/\ call.op = "pop_from_queue"
        /\ call.q \in QueueNames
        /\ call.q \notin denied
        /\ call.before[call.q].lines = <<>>)
            => call.ret = "None" /\ qfile = call.before

C8_Witness ==
    /\ call.op = "pop_from_queue"
    /\ call.q = "completed"
    /\ ~call.before["completed"].ex
    /\ call.ret = "None"
    /\ \E q \in QueueNames : qfile[q].lines # <<>>

\* C9: add_to_queue on a queue whose file cannot be opened returns None and
\* leaves every queue file as it was.
C9_AddDeniedReturnsNone ==
    (call.op = "add_to_queue" /\ call.q \in denied) =>
        call.ret = "None" /\ qfile = call.before

\* C10: a run that finds entries pending and has no -f neither initializes the
\* queues nor scans; completed, failed and skipped are as the run found them when
\* the work loop begins; the loop pops the entries the run found pending, in
\* their order, and none of them is the path of an entry in completed.
C10_ResumeWithoutRescan ==
    Resumed =>
        /\ ~run.did_init
        /\ ~run.did_scan
        /\ pc = "report" =>
                \A q \in {"completed", "failed", "skipped"} : qfile[q] = run.snap[q]
        /\ (pc = "done" /\ run.worked) =>
                /\ run.popped = run.snap["in_progress"].lines
                /\ \A e \in Elems(run.popped), d \in Elems(run.snap["completed"].lines) :
                        parse_entry(e).path # parse_entry(d).path

C10_Witness ==
    /\ Resumed
    /\ pc = "done"
    /\ run.worked
    /\ run.popped # <<>>
    /\ run.snap["completed"].lines # <<>>
    /\ run.snap["skipped"].lines # <<>>

\* the queues a visit of the scan changed
Changed(v) == {q \in QueueNames : v.after[q] # v.before[q]}

\* C11: a file the scan visits that is no working file is, when it is a video,
\* appended to one queue and no other: its bare path to failed when the
\* analysis returned 0, its bare path to skipped when it returned 2, its path
\* with the three flags of the analysis to the pending queue when it returned
\* 1; when it is no video, no queue file changes.
C11_ScanRouting ==
    \A i \in DOMAIN run.visit :
        LET v == run.visit[i]
            a == analyze_video(v.content)
            q == CASE a.result = 0 -> "failed"
                   [] a.result = 2 -> "skipped"
                   [] OTHER -> "in_progress"
            e == IF a.result = 1 THEN format_entry(v.path, a.nc, a.ne, a.nr)
                 ELSE v.path
        IN  ~is_working_name(v.path) =>
                IF v.content.mime = "video"
                THEN /\ Changed(v) = {q}
                     /\ v.after[q].lines = Append(v.before[q].lines, e)
                ELSE Changed(v) = {}

\* a scan of the tree with n.txt is over: two videos, two entries
C11_Witness ==
    /\ pc = "clean_check"
    /\ run.did_scan
    /\ DOMAIN fs = {File_a, File_k, File_n}
    /\ run.visit # <<>>
    /\ Changed(run.visit[1]) = {"in_progress"}
    /\ Len(qfile["in_progress"].lines) = 2
    /\ \A q \in QueueNames \ {"in_progress"} : qfile[q].lines = <<>>

\* C12: analyze_video returns 0 when the probe raises or the general or the
\* video track is missing; otherwise needs_container is true exactly when the
\* container differs from the policy's, needs_encode exactly when the codec
\* differs, needs_resize exactly when the height is greater than the policy's
\* (not at an equal height, not without a height), each whatever the other
\* two are, and the result is 2 when none is true, 1 otherwise.
C12_Classification ==
    call.op = "analyze_video" =>
        LET c == fs[File_a]
            flag == [i \in 1..3 |-> call.entry[i] = "True"]
        IN  IF c.probe = "raise" \/ "General" \notin c.tracks \/ "Video" \notin c.tracks
            THEN call.n = 0
            ELSE /\ flag[1] <=> (c.format # "Matroska")
                 /\ flag[2] <=> (c.vformat # "AV1")
                 /\ flag[3] <=> (c.height > 720)
                 /\ call.n = IF flag[1] \/ flag[2] \/ flag[3] THEN 1 ELSE 2

\* a file at the maximum height in the wrong container: the one flag
C12_Witness ==
    /\ call.op = "analyze_video"
    /\ fs[File_a].height = 720
    /\ fs[File_a].vformat = "AV1"
    /\ call.n = 1
    /\ call.entry = <<"True", "False", "False">>

\* the files on disk whose name ends in mediafixer_working
WorkingFiles(f) == {p \in DOMAIN f : is_working_name(p)}

\* C13: when a run with -s has ended, no file whose name ends in
\* mediafixer_working is left under the scan path, and the run has popped no
\* pending entry.
C13_CleanOnly ==
    (pc = "done" /\ args.clean_only) =>
        /\ WorkingFiles(fs) = {}
        /\ ~run.worked
        /\ run.popped = <<>>

\* the path an entry is about: the text before the delimiter, or all of it
EntryPath(e) ==
    LET D == {i \in DOMAIN e : e[i] = "||||"} IN
    IF D = {} THEN e
    ELSE SubSeq(e, 1, (CHOOSE i \in D : \A j \in D : i <= j) - 1)

\* <<queue, path>> for every entry in the queue files
Queued ==
    UNION {{<<q, EntryPath(qfile[q].lines[i])>> : i \in DOMAIN qfile[q].lines} :
            q \in QueueNames}

\* the queue files that hold an entry about the path
QueuesHolding(p) == {x[1] : x \in {y \in Queued : y[2] = p}}

\* C14: in every state, the entries about one path stand in at most one queue
\* file, the path of the item the work loop holds between its pop and the
\* recording of its outcome included.
C14_OneQueuePerItem ==
    LET held == Queued IN
    \A x, y \in held : x[2] = y[2] => x[1] = y[1]

\* an item is in hand while others stand in completed and in the pending queue
C14_Witness ==
    /\ Holding
    /\ pc = "record"
    /\ qfile["completed"].lines # <<>>
    /\ qfile["in_progress"].lines # <<>>
    /\ qfile["skipped"].lines # <<>>
    /\ QueuesHolding(EntryPath(loc.entry)) = {}

\* C15: while the work loop holds an item, between its pop and the recording
\* of its outcome, an entry about the item stands in a queue file on disk.
C15_ClaimedState ==
    Holding => QueuesHolding(EntryPath(loc.entry)) # {}

\* C16: a run that has called initialize_queues and has come to the end of its
\* start-up (line 384) has scanned.
C16_InitializeOnlyWithScan ==
    (pc = "clean_check" /\ run.did_init) => run.did_scan

\* the names process_video and its steps give the files they write before the
\* final rename: the working copy, the output of the remux, of the encode
IsArtifactName(p) ==
    \/ is_working_name(p)
    \/ /\ Len(p) > 2
       /\ p[Len(p)] = container_extension
       /\ p[Len(p) - 1] \in {".tmuxed", ".encoded"}

\* C17: a file the scan visits that bears the name of a working copy or of a
\* step's output is not classified: the visit appends nothing to skipped,
\* failed or the pending queue.
C17_LeftoversNotMedia ==
    \A i \in DOMAIN run.visit :
        IsArtifactName(run.visit[i].path) =>
            Changed(run.visit[i]) \subseteq {"leftovers"}

\* the outcomes the work loop appended to a queue, in the order it did
RecordedTo(q) == SelectSeq(run.recorded, LAMBDA r : r.q = q)

\* s ends with t
EndsWith(s, t) ==
    /\ Len(t) <= Len(s)
    /\ \A i \in DOMAIN t : s[Len(s) - Len(t) + i] = t[i].entry

\* C18: the entries the work loop has popped are, in their order, the first
\* of the entries that were pending when the loop began; the outcomes it has
\* recorded are, in their order, those of the first entries popped, with at most
\* the one in hand still without; and completed and failed end with the
\* outcomes recorded to them, in that order.
C18_StrictFIFO ==
    run.worked =>
        /\ Len(run.popped) <= Len(run.pending0)
        /\ \A i \in DOMAIN run.popped : run.popped[i] = run.pending0[i]
        /\ Len(run.recorded) \in {Len(run.popped), Len(run.popped) - 1}
        /\ \A i \in DOMAIN run.recorded : run.recorded[i].entry = run.popped[i]
        /\ EndsWith(qfile["completed"].lines, RecordedTo("completed"))
        /\ EndsWith(qfile["failed"].lines, RecordedTo("failed"))

\* two entries worked through in the order of the scan: completed, then failed
C18_Witness ==
    /\ pc = "done"
    /\ run.worked
    /\ run.did_scan
    /\ Len(run.pending0) = 2
    /\ run.popped = run.pending0
    /\ Len(run.recorded) = 2
    /\ run.recorded[1].q = "completed"
    /\ run.recorded[2].q = "failed"
    /\ qfile["completed"].lines = <<run.popped[1]>>
    /\ qfile["failed"].lines # <<>>

\* C19: every entry that is pending when the work loop begins parses, as the
\* loop parses it, to flags of which one at least is true; and the scan appends
\* to the pending queue only a file whose analysis returned 1.
C19_PendingNeedsWork ==
    /\ pc = "report" =>
            \A i \in DOMAIN qfile["in_progress"].lines :
                LET e == parse_entry(Strip(qfile["in_progress"].lines[i])) IN
                e.ok /\ (e.nc \/ e.ne \/ e.nr)
    /\ \A i \in DOMAIN run.visit :
            "in_progress" \in Changed(run.visit[i]) =>
                analyze_video(run.visit[i].content).result = 1

\* pending: a file with no height whose container alone is wrong, rendered
\* "True False None", beside one whose codec alone is wrong
C19_Witness ==
    /\ pc = "report"
    /\ run.did_scan
    /\ Len(qfile["in_progress"].lines) = 2
    /\ \E i \in DOMAIN qfile["in_progress"].lines :
            LET l == qfile["in_progress"].lines[i] IN
            /\ l[Len(l)] = "None"
            /\ parse_entry(l).nc
            /\ ~parse_entry(l).ne
            /\ ~parse_entry(l).nr

\* what the required steps make of a file: the remux, then the encode
Transformed(c, nc, ne, nr) ==
    LET c1 == IF nc THEN remuxed(c) ELSE c IN
    IF ne \/ nr THEN encoded(c1, ne, nr) ELSE c1

\* the original as process_video found it is at the item's path, or what the
\* steps make of it is at the final path
OriginalOrResult(path, nc, ne, nr) ==
    run.orig # <<>> =>
        \/ file_at(fs, path) = run.orig
        \/ file_at(fs, final_path_of(path)) = <<Transformed(run.orig[1], nc, ne, nr)>>

Plan(nc, ne, nr) ==
    (IF nc THEN <<"remux">> ELSE <<>>) \o (IF ne \/ nr THEN <<"encode">> ELSE <<>>)
        \o <<"rename">>

\* C21: the steps process_video has taken for the item in hand are the first
\* of remux (when required), encode/resize (when required), rename, in that
\* order, and every one of them but the last taken has succeeded; while the
\* remux runs no step has been taken, and while the encode runs the remux, when
\* required, has been taken and has succeeded.
C21_StepOrder ==
    (Holding /\ pc # "popped") =>
        LET plan == Plan(loc.nc, loc.ne, loc.nr) IN
        /\ Len(loc.steps) <= Len(plan)
        /\ \A i \in DOMAIN loc.steps :
                /\ loc.steps[i].step = plan[i]
                /\ i < Len(loc.steps) => loc.steps[i].ok
        /\ pc \in {"tmux_run", "tmux_done"} => loc.nc /\ loc.steps = <<>>
        /\ pc \in {"enc_run", "enc_done"} =>
                /\ loc.ne \/ loc.nr
                /\ loc.steps = IF loc.nc THEN <<[step |-> "remux", ok |-> TRUE]>> ELSE <<>>

\* the remux of an item that needs the encode too has failed: no encode, no
\* rename, the outcome is about to be recorded
C21_Witness ==
    /\ pc = "record"
    /\ ~args.test
    /\ loc.nc
    /\ loc.ne
    /\ loc.steps = <<[step |-> "remux", ok |-> FALSE]>>

\* the pending queue is empty and every entry that was pending when the work
\* loop began stands in completed or in failed
Drained ==
    /\ qfile["in_progress"].lines = <<>>
    /\ Elems(run.pending0) \subseteq
            Elems(qfile["completed"].lines) \cup Elems(qfile["failed"].lines)

\* C22: in a run that is not killed and whose steps all return, the work loop,
\* once begun, comes to its end, and there the pending queue is empty and every
\* entry that was pending when the loop began is in completed or in failed.
C22_WorkPhaseDrains ==
    (pc = "report") ~> (pc = "done" /\ run.worked /\ Drained)

\* a loop that began with two entries pending has ended, one in each queue
C22_Witness ==
    /\ pc = "done"
    /\ run.worked
    /\ kills = 0
    /\ Len(run.pending0) = 2
    /\ Drained
    /\ run.pending0[1] \in Elems(qfile["failed"].lines)
    /\ run.pending0[2] \in Elems(qfile["completed"].lines)

\* C23: no step of process_video on one item deletes or changes the file of
\* another item, a file at another path about which an entry stands in a queue.
C23_OtherItemsUntouched ==
    [][(Holding /\ pc # "popped") =>
            \A q \in DOMAIN fs :
                (q # loc.path /\ QueuesHolding(q) # {}) =>
                    (q \in DOMAIN fs' /\ fs'[q] = fs[q])]_vars

====
